---- MODULE Spec2Model ----
(***************************************************************************)
(* wlstreamer (src/src/main.rs): a controller that keeps a wf-recorder /   *)
(* ffmpeg pipeline pointed at the sway output that holds focus.            *)
(*                                                                         *)
(* The compositor (outputs, workspaces, the `swaymsg subscribe` stream)    *)
(* and the child processes are the environment; the controller is main(). *)
(***************************************************************************)
EXTENDS Integers, Sequences, FiniteSets, TLC

VARIABLES
    sway_outputs,     \* what `swaymsg -t get_outputs` answers: Seq(SwayOutput)
    sway_workspaces,  \* what `swaymsg -t get_workspaces` answers: Seq(SwayWorkspace)
    stream,           \* the subscription: "unopened", "open" or "closed"
    pending,          \* lines written to the subscription and not read yet
    changes,          \* compositor events so far (bounded by MaxChanges)
    config,           \* main's Config
    valid_screens,    \* main's valid_screens (the last selection)
    recorders,        \* main's recorders: Seq of the pids of the owned children
    children,         \* the child processes alive: pid -> its arguments
    pc,               \* where main is
    read_failed       \* a read of the subscription has returned an error

vars == << sway_outputs, sway_workspaces, stream, pending, changes, config,
           valid_screens, recorders, children, pc, read_failed >>

(***************************************************************************)
(* Bounds of the model.                                                    *)
(***************************************************************************)
MaxChanges == 3       \* compositor events in one behaviour
MaxPending == 2       \* unread lines the subscription pipe holds
MaxProcs == 4         \* child processes alive at once
MaxWs == 3            \* workspaces in an arbitrary get_workspaces answer
MaxOutputs == 3       \* outputs in an arbitrary get_outputs answer

OutputNames == {"A", "B"}
WsNums == {1, 2}

Res(w, h) == [height |-> h, width |-> w]

\* The modes an output can be in.
Modes == {Res(1600, 1200), Res(1920, 1080), Res(640, 480)}

\* struct SwayOutput (rect and current_mode.refresh are never read)
Output(n, m) == [name |-> n, current_mode |-> m]

\* struct SwayWorkspace (name, focus and rect are never read)
Workspace(n, o, v, f) == [num |-> n, output |-> o, visible |-> v, focused |-> f]

AllWorkspaces == {Workspace(n, o, v, f) : n \in WsNums, o \in OutputNames,
                                          v \in BOOLEAN, f \in BOOLEAN}

SeqsUpTo(S, n) == UNION {[1..k -> S] : k \in 0..n}

Range(s) == {s[i] : i \in DOMAIN s}

Max(S) == CHOOSE x \in S : \A y \in S : y <= x

(***************************************************************************)
(* get_resolutions (main.rs 259-301)                                       *)
(***************************************************************************)
\* itertools' unique(): keeps the first occurrence of every element
RECURSIVE Unique(_)
Unique(s) ==
    IF s = << >> THEN << >>
    ELSE LET init == Unique(SubSeq(s, 1, Len(s) - 1))
             x == s[Len(s)]
         IN IF x \in Range(init) THEN init ELSE Append(init, x)

\* FoldStep taking the wider resolution whole instead of each maximum
FoldStepWidest(acc, r) == IF r.width > acc.width THEN r ELSE acc

\* the closure of the fold (279-290)
FoldStep(acc, r) ==
    Res(IF acc.width > r.width THEN acc.width ELSE r.width,
        IF acc.height > r.height THEN acc.height ELSE r.height)

RECURSIVE Fold(_, _)
Fold(acc, s) == IF s = << >> THEN acc ELSE Fold(FoldStep(acc, Head(s)), Tail(s))

CombinedResolution(resolutions) == Fold(Res(0, 0), resolutions)

get_resolutions(outs) ==
    LET resolutions == Unique([i \in DOMAIN outs |->
                                  Res(outs[i].current_mode.width,
                                      outs[i].current_mode.height)])
    IN Unique(<< CombinedResolution(resolutions) >> \o resolutions)

(***************************************************************************)
(* get_valid_screens_for_recording (main.rs 303-352)                       *)
(***************************************************************************)
\* Keep without the screen blacklist
KeepAnyScreen(cfg, w) ==
    /\ w.visible
    /\ w.num \notin cfg.workspace_blacklist

\* the filter closure (324-331)
Keep(cfg, w) ==
    /\ w.visible
    /\ w.output \notin cfg.screen_blacklist
    /\ w.num \notin cfg.workspace_blacklist

\* Compare without the test of b in its first branch
CompareFocusedLess(a, b) ==
    IF a.focused THEN "Less"
    ELSE IF a.focused = b.focused THEN "Equal"
    ELSE "Greater"

\* the sort_by comparator (341-349)
Compare(a, b) ==
    IF a.focused /\ ~b.focused THEN "Less"
    ELSE IF a.focused = b.focused THEN "Equal"
    ELSE "Greater"

\* slice::sort_by is a stable sort: x goes before the first element it is Less than
RECURSIVE InsertSorted(_, _)
InsertSorted(sorted, x) ==
    IF sorted = << >> THEN << x >>
    ELSE IF Compare(x, Head(sorted)) = "Less" THEN << x >> \o sorted
    ELSE << Head(sorted) >> \o InsertSorted(Tail(sorted), x)

RECURSIVE SortBy(_)
SortBy(s) ==
    IF s = << >> THEN << >>
    ELSE InsertSorted(SortBy(SubSeq(s, 1, Len(s) - 1)), s[Len(s)])

get_valid_screens_for_recording(cfg, workspaces) ==
    LET KeepW(w) == Keep(cfg, w)
    IN SortBy(SelectSeq(workspaces, KeepW))

(***************************************************************************)
(* get_output (main.rs 249-257)                                            *)
(***************************************************************************)
\* FindOutput falling back to the first output when the name is not listed
FindOutputOrFirst(outs, screen) ==
    IF \E i \in DOMAIN outs : outs[i].name = screen
    THEN CHOOSE i \in DOMAIN outs :
            /\ outs[i].name = screen
            /\ \A j \in 1..(i - 1) : outs[j].name # screen
    ELSE IF Len(outs) > 0 THEN 1 ELSE 0

\* iter().find(): the first output of that name; 0 when there is none (panic)
FindOutput(outs, screen) ==
    IF \E i \in DOMAIN outs : outs[i].name = screen
    THEN CHOOSE i \in DOMAIN outs :
            /\ outs[i].name = screen
            /\ \A j \in 1..(i - 1) : outs[j].name # screen
    ELSE 0

(***************************************************************************)
(* The child processes.  A child is its command line, and whether a        *)
(* termination signal has been sent to it.                                 *)
(***************************************************************************)
NoSize == Res(0, 0)

\* ffmpeg -i color=c=black:s=WxH ... /dev/video<out_dev>        (103-118)
BlackProc(size, dev) ==
    [kind |-> "black", screen |-> "", in_dev |-> -1, out_dev |-> dev,
     size |-> size, signalled |-> FALSE]

\* wf-recorder -o<screen> --file=/dev/video<out_dev>            (156-165)
CaptureProc(screen, dev) ==
    [kind |-> "capture", screen |-> screen, in_dev |-> -1, out_dev |-> dev,
     size |-> NoSize, signalled |-> FALSE]

\* ffmpeg -i /dev/video<in_dev> -vf scale=W:H... /dev/video<out_dev>  (193-208)
ScalerProc(from, size, dev) ==
    [kind |-> "scaler", screen |-> "", in_dev |-> from, out_dev |-> dev,
     size |-> size, signalled |-> FALSE]

\* pids the system can give to a new child: not alive, and no handle held on it
FreePids(ch, held) == (1..MaxProcs) \ (DOMAIN ch \cup Range(held))

Min(S) == CHOOSE x \in S : \A y \in S : x <= y

\* Insert into a fresh map
InsertAlone(m, k, v) == [x \in {k} |-> v]

\* HashMap::insert
Insert(m, k, v) == [x \in DOMAIN m \cup {k} |-> IF x = k THEN v ELSE m[x]]

\* Allocate without the lookup: every call takes a new index
AllocateAlways(cfg, resolution) ==
    [device_number |-> cfg.last_device_index + 1,
     config |-> [cfg EXCEPT
                   !.last_device_index = cfg.last_device_index + 1,
                   !.outputs = [x \in DOMAIN cfg.outputs \cup {resolution} |->
                                  IF x = resolution THEN cfg.last_device_index + 1
                                  ELSE cfg.outputs[x]]]]

\* Allocate without the increment of last_device_index
AllocateNoIncrement(cfg, resolution) ==
    IF resolution \in DOMAIN cfg.outputs
    THEN [device_number |-> cfg.outputs[resolution], config |-> cfg]
    ELSE [device_number |-> cfg.last_device_index + 1,
          config |-> [cfg EXCEPT
                        !.outputs = [x \in DOMAIN cfg.outputs \cup {resolution} |->
                                       IF x = resolution
                                       THEN cfg.last_device_index + 1
                                       ELSE cfg.outputs[x]]]]

(***************************************************************************)
(* the device lookup of record_screen (main.rs 143-150)                    *)
(***************************************************************************)
Allocate(cfg, resolution) ==
    IF resolution \in DOMAIN cfg.outputs
    THEN [device_number |-> cfg.outputs[resolution], config |-> cfg]
    ELSE [device_number |-> cfg.last_device_index + 1,
          config |-> [cfg EXCEPT
                        !.last_device_index = cfg.last_device_index + 1,
                        !.outputs = Insert(cfg.outputs, resolution,
                                           cfg.last_device_index + 1)]]

\* stream_black without the reset of current_output
stream_black_keeps_target(cfg, ch, held, ok) ==
    IF ~ok
    THEN [ok |-> FALSE, config |-> cfg, children |-> ch, processes |-> << >>]
    ELSE LET pid == CHOOSE x \in FreePids(ch, held) :
                       \A y \in FreePids(ch, held) : x <= y
         IN [ok |-> TRUE,
             config |-> cfg,
             children |-> ch @@ (pid :> BlackProc(cfg.resolutions[1], cfg.devices_from)),
             processes |-> << pid >>]

(***************************************************************************)
(* stream_black (main.rs 102-135).  ok: whether spawn() succeeds.          *)
(***************************************************************************)
stream_black(cfg, ch, held, ok) ==
    IF ~ok
    THEN [ok |-> FALSE, config |-> cfg, children |-> ch, processes |-> << >>]
    ELSE LET pid == Min(FreePids(ch, held))
         IN [ok |-> TRUE,
             config |-> [cfg EXCEPT !.current_output = ""],
             children |-> ch @@ (pid :> BlackProc(cfg.resolutions[1], cfg.devices_from)),
             processes |-> << pid >>]

\* record_screen without the upscaler
record_screen_no_scaler(cfg, ch, held, output, fail) ==
    LET resolution == Res(output.current_mode.width, output.current_mode.height)
        alloc == Allocate(cfg, resolution)
        pid1 == Min(FreePids(ch, held))
    IN IF fail = "recorder"
       THEN [ok |-> FALSE, config |-> alloc.config, children |-> ch,
             processes |-> << >>]
       ELSE [ok |-> TRUE,
             config |-> [alloc.config EXCEPT !.current_output = output.name],
             children |-> ch @@ (pid1 :> CaptureProc(output.name, alloc.device_number)),
             processes |-> << pid1 >>]

\* record_screen going on with the capture alone when the upscaler's spawn fails
record_screen_partial(cfg, ch, held, output, fail) ==
    LET resolution == Res(output.current_mode.width, output.current_mode.height)
        alloc == Allocate(cfg, resolution)
        device_number == alloc.device_number
        pid1 == Min(FreePids(ch, held))
        ch1 == ch @@ (pid1 :> CaptureProc(output.name, device_number))
        cfg2 == [alloc.config EXCEPT !.current_output = output.name]
        pid2 == Min(FreePids(ch1, held))
        ch2 == ch1 @@ (pid2 :> ScalerProc(device_number, cfg.resolutions[1],
                                          cfg.devices_from))
    IN IF fail = "recorder"
       THEN [ok |-> FALSE, config |-> alloc.config, children |-> ch,
             processes |-> << >>]
       ELSE IF device_number # cfg.devices_from /\ fail # "upscaler"
       THEN [ok |-> TRUE, config |-> cfg2, children |-> ch2,
             processes |-> << pid1, pid2 >>]
       ELSE [ok |-> TRUE, config |-> cfg2, children |-> ch1,
             processes |-> << pid1 >>]

\* record_screen scaling to the output's own resolution
record_screen_native_size(cfg, ch, held, output, fail) ==
    LET resolution == Res(output.current_mode.width, output.current_mode.height)
        alloc == Allocate(cfg, resolution)
        device_number == alloc.device_number
        pid1 == Min(FreePids(ch, held))
        ch1 == ch @@ (pid1 :> CaptureProc(output.name, device_number))
        cfg2 == [alloc.config EXCEPT !.current_output = output.name]
        pid2 == Min(FreePids(ch1, held))
        ch2 == ch1 @@ (pid2 :> ScalerProc(device_number, resolution,
                                          cfg.devices_from))
    IN IF fail = "recorder"
       THEN [ok |-> FALSE, config |-> alloc.config, children |-> ch,
             processes |-> << >>]
       ELSE IF device_number # cfg.devices_from
       THEN IF fail = "upscaler"
            THEN [ok |-> FALSE, config |-> cfg2, children |-> ch1,
                  processes |-> << >>]
            ELSE [ok |-> TRUE, config |-> cfg2, children |-> ch2,
                  processes |-> << pid1, pid2 >>]
       ELSE [ok |-> TRUE, config |-> cfg2, children |-> ch1,
             processes |-> << pid1 >>]

(***************************************************************************)
(* record_screen (main.rs 137-226).  fail: the spawn() that fails, if any. *)
(***************************************************************************)
record_screen(cfg, ch, held, output, fail) ==
    LET resolution == Res(output.current_mode.width, output.current_mode.height)
        alloc == Allocate(cfg, resolution)
        device_number == alloc.device_number
        cfg1 == alloc.config
        pid1 == Min(FreePids(ch, held))
        ch1 == ch @@ (pid1 :> CaptureProc(output.name, device_number))
        cfg2 == [cfg1 EXCEPT !.current_output = output.name]
        pid2 == Min(FreePids(ch1, held))
        ch2 == ch1 @@ (pid2 :> ScalerProc(device_number, cfg.resolutions[1],
                                          cfg.devices_from))
    IN IF fail = "recorder"
       THEN [ok |-> FALSE, config |-> cfg1, children |-> ch, processes |-> << >>]
       ELSE IF device_number # cfg.devices_from
       THEN IF fail = "upscaler"
            THEN [ok |-> FALSE, config |-> cfg2, children |-> ch1,
                  processes |-> << >>]
            ELSE [ok |-> TRUE, config |-> cfg2, children |-> ch2,
                  processes |-> << pid1, pid2 >>]
       ELSE [ok |-> TRUE, config |-> cfg2, children |-> ch1,
             processes |-> << pid1 >>]

SpawnFailures == {"none", "recorder", "upscaler"}

\* Kill that leaves out the last of the handles
KillAllButLast(ch, held, k) ==
    [p \in DOMAIN ch |->
        IF \E i \in 1..(k - 1) : held[i] = p THEN [ch[p] EXCEPT !.signalled = TRUE]
        ELSE ch[p]]

\* Kill followed by a wait for the exit of each child
KillAndWait(ch, held, k) ==
    [p \in DOMAIN ch \ {held[i] : i \in 1..k} |-> ch[p]]

\* Kill that stops after the first handle
KillFirstOnly(ch, held, k) ==
    [p \in DOMAIN ch |->
        IF k >= 1 /\ held[1] = p THEN [ch[p] EXCEPT !.signalled = TRUE]
        ELSE ch[p]]

\* Child::kill on the first k handles: the children still alive are signalled
Kill(ch, held, k) ==
    [p \in DOMAIN ch |->
        IF \E i \in 1..k : held[i] = p THEN [ch[p] EXCEPT !.signalled = TRUE]
        ELSE ch[p]]

(***************************************************************************)
(* main (main.rs 354-452)                                                  *)
(***************************************************************************)
\* the Config literal (355-364) after the option loop (367-397)
InitConfig(d, sb, wb) ==
    [current_output |-> "", devices_from |-> d, last_device_index |-> 0,
     screen_blacklist |-> sb, workspace_blacklist |-> wb,
     resolutions |-> << >>, outputs |-> << >>]

\* Resolve binding every resolution of the startup snapshot to a device
ResolveBindsAll ==
    /\ pc = "init"
    /\ LET resolutions == get_resolutions(sway_outputs)
       IN config' = [config EXCEPT
                        !.resolutions = resolutions,
                        !.outputs = [r \in Range(resolutions) |->
                                       config.devices_from - 1 +
                                         CHOOSE i \in DOMAIN resolutions :
                                            resolutions[i] = r],
                        !.last_device_index =
                            config.devices_from + Len(resolutions) - 1]
    /\ pc' = "select"
    /\ UNCHANGED << sway_outputs, sway_workspaces, stream, pending, changes,
                    valid_screens, recorders, children,
                    read_failed >>

\* 399-403
Resolve ==
    /\ pc = "init"
    /\ LET resolutions == get_resolutions(sway_outputs)
       IN config' = [config EXCEPT
                        !.resolutions = resolutions,
                        !.outputs = Insert(config.outputs, resolutions[1],
                                           config.devices_from),
                        !.last_device_index = config.devices_from]
    /\ pc' = "select"
    /\ UNCHANGED << sway_outputs, sway_workspaces, stream, pending, changes,
                    valid_screens, recorders, children,
                    read_failed >>

\* 404
StartSelect ==
    /\ pc = "select"
    /\ valid_screens' = get_valid_screens_for_recording(config, sway_workspaces)
    /\ pc' = "build"
    /\ UNCHANGED << sway_outputs, sway_workspaces, stream, pending, changes,
                    config, recorders, children,
                    read_failed >>

\* the pipeline construction of 405-410 and of 441-446; next: where main goes on
Build(next) ==
    /\ Cardinality(FreePids(children, recorders)) >= 2
    /\ IF Len(valid_screens) = 0
       THEN \E ok \in BOOLEAN :
              LET r == stream_black(config, children, recorders, ok)
              IN /\ config' = r.config
                 /\ children' = r.children
                 /\ recorders' = IF r.ok THEN r.processes ELSE recorders
                 /\ pc' = IF r.ok THEN next ELSE "aborted"
       ELSE LET i == FindOutput(sway_outputs, valid_screens[1].output)
            IN IF i = 0
               THEN /\ pc' = "aborted"
                    /\ UNCHANGED << config, children, recorders >>
               ELSE \E fail \in SpawnFailures :
                      LET r == record_screen(config, children, recorders,
                                             sway_outputs[i], fail)
                      IN /\ config' = r.config
                         /\ children' = r.children
                         /\ recorders' = IF r.ok THEN r.processes ELSE recorders
                         /\ pc' = IF r.ok THEN next ELSE "aborted"
    /\ UNCHANGED << sway_outputs, sway_workspaces, stream, pending, changes,
                    valid_screens,
                    read_failed >>

\* 405-410
StartBuild ==
    /\ pc = "build"
    /\ Build("subscribe")

\* 412-424
Subscribe ==
    /\ pc = "subscribe"
    /\ \E ok \in BOOLEAN :
         /\ stream' = IF ok THEN "open" ELSE stream
         /\ pc' = IF ok THEN "wait" ELSE "aborted"
    /\ UNCHANGED << sway_outputs, sway_workspaces, pending, changes, config,
                    valid_screens, recorders, children,
                    read_failed >>

\* 425-439: one line is read, the selection is recomputed, the owned children
\* are killed unless the first candidate is the current output
HandleSelect ==
    /\ pc = "wait"
    /\ pending > 0
    /\ pending' = pending - 1
    /\ valid_screens' = get_valid_screens_for_recording(config, sway_workspaces)
    /\ IF Len(valid_screens') > 0
          /\ valid_screens'[1].output = config.current_output
       THEN /\ pc' = "wait"
            /\ UNCHANGED children
       ELSE \E k \in 0..Len(recorders) :
              /\ children' = Kill(children, recorders, k)
              /\ pc' = IF k = Len(recorders) THEN "rebuild" ELSE "aborted"
    /\ UNCHANGED << sway_outputs, sway_workspaces, stream, changes, config,
                    recorders,
                    read_failed >>

\* 441-448
HandleBuild ==
    /\ pc = "rebuild"
    /\ Build("wait")

\* 425, 451: lines() ends at the end of the stream and main returns Ok(())
EndOfStream ==
    /\ pc = "wait"
    /\ stream = "closed"
    /\ pending = 0
    /\ pc' = "done"
    /\ UNCHANGED << sway_outputs, sway_workspaces, stream, pending, changes,
                    config, valid_screens, recorders, children,
                    read_failed >>

(***************************************************************************)
(* The environment: the compositor and the children.                       *)
(***************************************************************************)
\* swaymsg -t subscribe -m "['window']" writes one line per event once it runs
Emit ==
    IF stream = "open"
    THEN pending < MaxPending /\ pending' = pending + 1
    ELSE pending' = pending

\* workspace i takes the focus: it is visible, the others on its output are not
FocusChange(i) ==
    /\ changes < MaxChanges
    /\ ~sway_workspaces[i].focused
    /\ sway_workspaces' =
         [j \in DOMAIN sway_workspaces |->
            IF j = i
            THEN [sway_workspaces[j] EXCEPT !.focused = TRUE, !.visible = TRUE]
            ELSE IF sway_workspaces[j].output = sway_workspaces[i].output
            THEN [sway_workspaces[j] EXCEPT !.focused = FALSE, !.visible = FALSE]
            ELSE [sway_workspaces[j] EXCEPT !.focused = FALSE]]
    /\ changes' = changes + 1
    /\ Emit
    /\ UNCHANGED << sway_outputs, stream, config, valid_screens, recorders,
                    children, pc,
                    read_failed >>

\* workspace i is shown or hidden; a hidden workspace has no focus
VisibilityChange(i) ==
    /\ changes < MaxChanges
    /\ sway_workspaces' =
         [sway_workspaces EXCEPT
            ![i] = [@ EXCEPT !.visible = ~@, !.focused = @ /\ ~sway_workspaces[i].visible]]
    /\ changes' = changes + 1
    /\ Emit
    /\ UNCHANGED << sway_outputs, stream, config, valid_screens, recorders,
                    children, pc,
                    read_failed >>

\* a window event that changes no workspace (title, move, ...)
WindowEvent ==
    /\ changes < MaxChanges
    /\ changes' = changes + 1
    /\ Emit
    /\ UNCHANGED << sway_outputs, sway_workspaces, stream, config,
                    valid_screens, recorders, children, pc,
                    read_failed >>

\* output i changes its mode; no window event
ModeChange(i, m) ==
    /\ changes < MaxChanges
    /\ sway_outputs[i].current_mode # m
    /\ sway_outputs' = [sway_outputs EXCEPT ![i].current_mode = m]
    /\ changes' = changes + 1
    /\ UNCHANGED << sway_workspaces, stream, pending, config, valid_screens,
                    recorders, children, pc,
                    read_failed >>

\* output i is unplugged; no window event
OutputRemove(i) ==
    /\ changes < MaxChanges
    /\ sway_outputs' = SubSeq(sway_outputs, 1, i - 1)
                         \o SubSeq(sway_outputs, i + 1, Len(sway_outputs))
    /\ changes' = changes + 1
    /\ UNCHANGED << sway_workspaces, stream, pending, config, valid_screens,
                    recorders, children, pc,
                    read_failed >>

\* the compositor exits: the subscription's stdout reaches its end
StreamClose ==
    /\ stream = "open"
    /\ stream' = "closed"
    /\ UNCHANGED << sway_outputs, sway_workspaces, pending, changes, config,
                    valid_screens, recorders, children, pc,
                    read_failed >>

\* a signalled child exits
ChildExit(p) ==
    /\ children[p].signalled
    /\ children' = [q \in DOMAIN children \ {p} |-> children[q]]
    /\ UNCHANGED << sway_outputs, sway_workspaces, stream, pending, changes,
                    config, valid_screens, recorders, pc,
                    read_failed >>

Environment ==
    \/ \E i \in DOMAIN sway_workspaces : FocusChange(i)
    \/ \E i \in DOMAIN sway_workspaces : VisibilityChange(i)
    \/ WindowEvent
    \/ \E i \in DOMAIN sway_outputs : \E m \in Modes : ModeChange(i, m)
    \/ \E i \in DOMAIN sway_outputs : OutputRemove(i)
    \/ StreamClose
    \/ \E p \in DOMAIN children : ChildExit(p)

Controller ==
    \/ Resolve
    \/ StartSelect
    \/ StartBuild
    \/ Subscribe
    \/ HandleSelect
    \/ HandleBuild
    \/ EndOfStream

(***************************************************************************)
(* The controller on a desktop of two outputs with a workspace each.       *)
(***************************************************************************)
\* the desktops the controller is started on, each with its -d option
InitOutputs ==
    { << Output("A", Res(1600, 1200)), Output("B", Res(1920, 1080)) >>,
      << Output("A", Res(1920, 1080)), Output("B", Res(640, 480)) >> }

InitDevicesFrom(outs) == IF outs[1].current_mode = Res(1600, 1200) THEN 3 ELSE 0

InitWorkspaces ==
    { << Workspace(1, "A", TRUE, TRUE), Workspace(2, "B", TRUE, FALSE) >> }

InitController ==
    /\ stream = "unopened"
    /\ pending = 0
    /\ changes = 0
    /\ valid_screens = << >>
    /\ recorders = << >>
    /\ children = << >>
    /\ pc = "init"
    /\ read_failed = FALSE

Init ==
    /\ sway_outputs \in InitOutputs
    /\ sway_workspaces \in InitWorkspaces
    /\ \E sb \in {{}, {"B"}}, wb \in {{}, {1}} :
         config = InitConfig(InitDevicesFrom(sway_outputs), sb, wb)
    /\ InitController

Next == Controller \/ Environment

Spec == Init /\ [][Next]_vars

(***************************************************************************)
(* The controller on a subscription whose reads can fail.                  *)
(***************************************************************************)
\* 425: lines() yields an Err (the bytes read are not UTF-8, and the line is
\* lost, or the read itself fails, and nothing is consumed); filter_map with
\* line.ok() drops it and for_each goes on with the next read
ReadError ==
    /\ pc = "wait"
    /\ stream = "open"
    /\ \E lost \in {0, 1} :
         /\ lost <= pending
         /\ pending' = pending - lost
    /\ read_failed' = TRUE
    /\ pc' = "wait"
    /\ UNCHANGED << sway_outputs, sway_workspaces, stream, changes, config,
                    valid_screens, recorders, children >>

StreamNext == Next \/ ReadError

StreamSpec == Init /\ [][StreamNext]_vars

(***************************************************************************)
(* The pipeline target.                                                    *)
(***************************************************************************)
\* the output the selection picks on the compositor's present workspaces
SelectedTarget ==
    LET candidates == get_valid_screens_for_recording(config, sway_workspaces)
    IN IF Len(candidates) = 0 THEN "" ELSE candidates[1].output

\* main is blocked in lines() and nothing is left to read
Idle == pc = "wait" /\ pending = 0

\* C1: whenever the controller is blocked waiting for a notification with none
\* pending, current_output is the output of the first candidate of the
\* compositor's present workspaces ("" when there is none), also for changes
\* made between the startup selection and the opening of the subscription.
C1_TargetFollowsFocus == Idle => config.current_output = SelectedTarget

\* a step in which main reads a line and runs the handler's selection (425-430)
ReadsNotification == pc = "wait" /\ pending' = pending - 1

\* C2: a notification whose recomputed target equals the current target (an
\* output name, or "" in the Black state) kills nothing, spawns nothing and
\* leaves the target, the owned processes and the allocation table unchanged.
C2_NoOpNotification ==
    [][(ReadsNotification /\ SelectedTarget = config.current_output)
          => (pc' = "wait" /\ UNCHANGED << children, recorders, config >>)]_vars

\* a step that spawns a child
Spawns == DOMAIN children' \ DOMAIN children # {}

\* the child of this handle has been sent the termination signal
Signalled(p) == p \notin DOMAIN children \/ children[p].signalled

\* C3: on a swap every process the current pipeline owns has been sent the
\* termination signal before any process of the replacement is spawned.
C3_KillBeforeSpawn ==
    [][Spawns => \A i \in DOMAIN recorders : Signalled(recorders[i])]_vars

\* a two-process pipeline has been replaced by a pipeline for another output
C3_Witness ==
    /\ pc = "wait"
    /\ config.current_output # ""
    /\ Len(recorders) > 0
    /\ \E p \in DOMAIN children :
         /\ children[p].signalled
         /\ children[p].kind = "scaler"
    /\ \E p \in DOMAIN children :
         /\ children[p].signalled
         /\ children[p].kind = "capture"
         /\ children[p].screen # config.current_output

\* the startup pipeline is built, or a notification has been handled
Settled == pc \in {"subscribe", "wait", "done"}

\* the Black pipeline: one owned process, a black generator at the canonical
\* resolution writing to /dev/video<devices_from>, and no target
IsBlack ==
    /\ config.current_output = ""
    /\ Len(recorders) = 1
    /\ recorders[1] \in DOMAIN children
    /\ LET c == children[recorders[1]]
       IN /\ c.kind = "black"
          /\ c.size = config.resolutions[1]
          /\ c.out_dev = config.devices_from
          /\ ~c.signalled

\* C4: after startup and after every handled notification the pipeline is Black
\* iff the selection had no candidate; otherwise the target is the output of the
\* first candidate and the first owned process is a capture of that output.
C4_BlackIffNoCandidate ==
    Settled =>
      /\ IsBlack <=> Len(valid_screens) = 0
      /\ Len(valid_screens) > 0 =>
           /\ config.current_output = valid_screens[1].output
           /\ Len(recorders) >= 1
           /\ recorders[1] \in DOMAIN children
           /\ children[recorders[1]].kind = "capture"
           /\ children[recorders[1]].screen = valid_screens[1].output
           /\ ~children[recorders[1]].signalled

\* a notification has moved a recording pipeline to Black
C4_Witness ==
    /\ pc = "wait"
    /\ IsBlack
    /\ \E p \in DOMAIN children : children[p].signalled /\ children[p].kind = "capture"

(***************************************************************************)
(* The selection on arbitrary get_workspaces answers: the startup of the   *)
(* controller up to its first selection.                                   *)
(***************************************************************************)
SelInit ==
    /\ sway_outputs = << Output("A", Res(1600, 1200)), Output("B", Res(1920, 1080)) >>
    /\ sway_workspaces \in SeqsUpTo(AllWorkspaces, MaxWs)
    /\ \E sb \in {{}, {"B"}}, wb \in {{}, {2}} : config = InitConfig(0, sb, wb)
    /\ InitController

SelNext == Resolve \/ StartSelect

SelSpec == SelInit /\ [][SelNext]_vars

(***************************************************************************)
(* The resolutions on arbitrary get_outputs answers: the startup of the    *)
(* controller up to the allocation table.                                  *)
(***************************************************************************)
AllOutputs == {Output(n, m) : n \in {"A", "B", "C"}, m \in Modes}

ResInit ==
    /\ sway_outputs \in {s \in SeqsUpTo(AllOutputs, MaxOutputs) :
                           \A i, j \in DOMAIN s : s[i].name = s[j].name => i = j}
    /\ sway_workspaces \in InitWorkspaces
    /\ \E d \in {0, 3} : config = InitConfig(d, {}, {})
    /\ InitController

ResNext == Resolve

ResSpec == ResInit /\ [][ResNext]_vars

(***************************************************************************)
(* The selection.                                                          *)
(***************************************************************************)
\* a step that assigns valid_screens (404, 427)
Selects == (pc = "select" /\ pc' = "build") \/ ReadsNotification

Passes(w) ==
    /\ w.visible
    /\ w.output \notin config.screen_blacklist
    /\ w.num \notin config.workspace_blacklist

Count(s, w) == Cardinality({i \in DOMAIN s : s[i] = w})

\* C5: the selection holds exactly the workspaces that are visible, whose output
\* is not in screen_blacklist and whose num is not in workspace_blacklist; so the
\* pipeline target is always none or an output that is not in screen_blacklist.
C5_SelectionIsTheFilter ==
    /\ [](config.current_output = ""
            \/ config.current_output \notin config.screen_blacklist)
    /\ [][Selects =>
            \A w \in Range(sway_workspaces) \cup Range(valid_screens') :
               Count(valid_screens', w) =
                  IF Passes(w) THEN Count(sway_workspaces, w) ELSE 0]_vars

\* the focus is on a workspace of a blacklisted screen and the pipeline records
\* the other output
C5_Witness ==
    /\ Idle
    /\ valid_screens = get_valid_screens_for_recording(config, sway_workspaces)
    /\ Len(valid_screens) > 0
    /\ config.current_output = valid_screens[1].output
    /\ \E i \in DOMAIN sway_workspaces :
         /\ sway_workspaces[i].focused
         /\ sway_workspaces[i].visible
         /\ sway_workspaces[i].output \in config.screen_blacklist

IsFocused(w) == w.focused
NotFocused(w) == ~w.focused

\* C6: the selection is the stable partition of the filtered workspaces: the
\* focused ones, then the others, each group in the order of the query; so the
\* first candidate is the first focused survivor, or else the first survivor.
C6_StablePartition ==
    [][Selects =>
         LET filtered == SelectSeq(sway_workspaces, Passes)
             first == SelectSeq(filtered, IsFocused)
         IN /\ valid_screens' = first \o SelectSeq(filtered, NotFocused)
            /\ Len(filtered) > 0 =>
                 valid_screens'[1] = IF Len(first) > 0 THEN first[1]
                                     ELSE filtered[1]]_vars

\* a focused workspace has moved in front of two others, which keep their order
C6_Witness ==
    /\ pc = "build"
    /\ Len(valid_screens) = 3
    /\ valid_screens[1].focused
    /\ ~valid_screens[2].focused
    /\ ~valid_screens[3].focused
    /\ valid_screens[2] # valid_screens[3]
    /\ sway_workspaces = << valid_screens[2], valid_screens[3], valid_screens[1] >>

(***************************************************************************)
(* The canonical resolution.                                               *)
(***************************************************************************)
Reorderings(s) ==
    {[i \in DOMAIN s |-> s[f[i]]] :
        f \in {g \in [DOMAIN s -> DOMAIN s] : \A i, j \in DOMAIN s : g[i] = g[j] => i = j}}

\* C7: for a non-empty set of outputs the canonical resolution is the maximum
\* width by the maximum height, whatever the order of the outputs, and it is
\* resolutions[0] also when an output has that very resolution.
C7_CanonicalIsMax ==
    [][(pc = "init" /\ pc' = "select" /\ Len(sway_outputs) > 0) =>
         LET canonical ==
               Res(Max({sway_outputs[i].current_mode.width : i \in DOMAIN sway_outputs}),
                   Max({sway_outputs[i].current_mode.height : i \in DOMAIN sway_outputs}))
         IN /\ config'.resolutions[1] = canonical
            /\ \A i \in 2..Len(config'.resolutions) :
                 config'.resolutions[i] # canonical
            /\ \A o \in Reorderings(sway_outputs) :
                 get_resolutions(o)[1] = canonical]_vars

\* the canonical resolution is the mode of the second output, not of the first
C7_Witness ==
    /\ pc = "select"
    /\ Len(sway_outputs) >= 2
    /\ config.resolutions[1] = sway_outputs[2].current_mode
    /\ config.resolutions[1] # sway_outputs[1].current_mode
    /\ Len(config.resolutions) = 2

(***************************************************************************)
(* The allocation table.                                                   *)
(***************************************************************************)
\* a step that builds a pipeline (405-410, 441-446)
Builds == pc \in {"build", "rebuild"} /\ pc' # pc

\* the resolution record_screen looks up in that step
BuiltResolution ==
    LET o == sway_outputs[FindOutput(sway_outputs, valid_screens[1].output)]
    IN Res(o.current_mode.width, o.current_mode.height)

\* that step records an output whose resolution is already in the table
BuildsKnownResolution ==
    /\ Builds
    /\ Len(valid_screens) > 0
    /\ FindOutput(sway_outputs, valid_screens[1].output) # 0
    /\ BuiltResolution \in DOMAIN config.outputs

\* C8: allocating a resolution that is already in the table gives the index bound
\* to it and changes neither the table nor the counter, in every state and
\* however often it is repeated.
C8_AllocateIdempotent ==
    /\ [](\A r \in DOMAIN config.outputs :
            /\ Allocate(config, r).device_number = config.outputs[r]
            /\ Allocate(config, r).config = config
            /\ Allocate(Allocate(config, r).config, r) = Allocate(config, r))
    /\ [][BuildsKnownResolution =>
            /\ config'.outputs = config.outputs
            /\ config'.last_device_index = config.last_device_index
            /\ \A p \in DOMAIN children' \ DOMAIN children :
                 children'[p].kind = "capture" =>
                    children'[p].out_dev = config.outputs[BuiltResolution]]_vars

\* an output is recorded again through the device its resolution got earlier
C8_Witness ==
    /\ pc = "wait"
    /\ Len(recorders) = 2
    /\ recorders[1] \in DOMAIN children
    /\ children[recorders[1]].kind = "capture"
    /\ children[recorders[1]].out_dev # config.devices_from
    /\ children[recorders[1]].out_dev < config.last_device_index

Devices == {config.outputs[r] : r \in DOMAIN config.outputs}

\* C9: the table is injective and its indices are contiguous: the N resolutions
\* other than the canonical one are bound in the order they were met to
\* devices_from+1 .. devices_from+N, and the indices in use are exactly
\* devices_from .. last_device_index.
C9_TableContiguous ==
    /\ [](pc # "init" =>
            /\ \A r1, r2 \in DOMAIN config.outputs :
                 config.outputs[r1] = config.outputs[r2] => r1 = r2
            /\ Devices = config.devices_from .. config.last_device_index
            /\ config.last_device_index =
                 config.devices_from + Cardinality(DOMAIN config.outputs) - 1)
    /\ [][pc # "init" =>
            \A r \in DOMAIN config'.outputs \ DOMAIN config.outputs :
               config'.outputs[r] =
                  config.devices_from + Cardinality(DOMAIN config.outputs)]_vars

\* two resolutions besides the canonical one are bound, from device 3 on
C9_Witness ==
    /\ pc = "wait"
    /\ config.devices_from = 3
    /\ Cardinality(DOMAIN config.outputs) = 3
    /\ Devices = {3, 4, 5}

\* C10: from the end of startup on the canonical resolution is bound to
\* devices_from, and no binding is ever changed or removed, also when the output
\* that had the resolution is gone.
C10_BindingsPermanent ==
    /\ [](pc # "init" =>
            /\ config.resolutions[1] \in DOMAIN config.outputs
            /\ config.outputs[config.resolutions[1]] = config.devices_from)
    /\ [][\A r \in DOMAIN config.outputs :
            /\ r \in DOMAIN config'.outputs
            /\ config'.outputs[r] = config.outputs[r]]_vars

\* a resolution that no output has any more is still bound, and another
\* resolution has been bound after it
C10_Witness ==
    /\ pc = "wait"
    /\ \E r \in DOMAIN config.outputs :
         /\ r # config.resolutions[1]
         /\ config.outputs[r] < config.last_device_index
         /\ \A i \in DOMAIN sway_outputs :
              Res(sway_outputs[i].current_mode.width,
                  sway_outputs[i].current_mode.height) # r

(***************************************************************************)
(* The recording pipeline.                                                 *)
(***************************************************************************)
\* a step that completes a recording pipeline (409, 445)
BuildsRecording ==
    /\ Builds
    /\ pc' \in {"subscribe", "wait"}
    /\ Len(valid_screens) > 0

\* C11: a recording pipeline for output O has a scaler iff the resolution O has
\* when the pipeline is built differs from the canonical one: if equal the capture
\* writes into /dev/video<devices_from> and is the only owned process, if not the
\* owned list is the capture into O's own device, then the scaler from that
\* device into /dev/video<devices_from>.
C11_ScalerIffNotCanonical ==
    [][BuildsRecording =>
         LET capture == children'[recorders'[1]]
         IN /\ capture.kind = "capture"
            /\ capture.screen = valid_screens[1].output
            /\ ~capture.signalled
            /\ IF BuiltResolution = config.resolutions[1]
               THEN /\ Len(recorders') = 1
                    /\ capture.out_dev = config.devices_from
               ELSE /\ Len(recorders') = 2
                    /\ capture.out_dev = config'.outputs[BuiltResolution]
                    /\ capture.out_dev # config.devices_from
                    /\ LET scaler == children'[recorders'[2]]
                       IN /\ scaler.kind = "scaler"
                          /\ scaler.in_dev = capture.out_dev
                          /\ scaler.out_dev = config.devices_from
                          /\ ~scaler.signalled]_vars

\* a pipeline with a scaler has been replaced by a capture straight into the
\* canonical device
C11_Witness ==
    /\ pc = "wait"
    /\ Len(recorders) = 1
    /\ recorders[1] \in DOMAIN children
    /\ children[recorders[1]].kind = "capture"
    /\ children[recorders[1]].out_dev = config.devices_from
    /\ \E p \in DOMAIN children :
         children[p].kind = "scaler" /\ children[p].signalled

(***************************************************************************)
(* Failures.                                                               *)
(***************************************************************************)
\* the children a step spawns
Spawned == DOMAIN children' \ DOMAIN children

\* the spawns a pipeline construction makes when none fails
SpawnsWanted ==
    IF Len(valid_screens) = 0 THEN 1
    ELSE IF \A i \in DOMAIN sway_outputs :
               sway_outputs[i].name # valid_screens[1].output THEN 0
    ELSE IF BuiltResolution = config.resolutions[1] THEN 1
    ELSE 2

\* a pipeline construction in which a spawn fails
SpawnFails == Builds /\ Cardinality(Spawned) < SpawnsWanted

\* the owned processes are a whole pipeline
WholePipeline ==
    /\ Len(recorders) >= 1
    /\ \A i \in DOMAIN recorders :
         recorders[i] \in DOMAIN children /\ ~children[recorders[i]].signalled
    /\ LET first == children[recorders[1]]
       IN \/ Len(recorders) = 1 /\ first.kind = "black"
          \/ /\ Len(recorders) = 1
             /\ first.kind = "capture"
             /\ first.out_dev = config.devices_from
          \/ /\ Len(recorders) = 2
             /\ first.kind = "capture"
             /\ first.out_dev # config.devices_from
             /\ children[recorders[2]].kind = "scaler"
             /\ children[recorders[2]].in_dev = first.out_dev

\* C12: a spawn failure while a pipeline is built is fatal: the controller
\* exits, handles no further notification, spawns nothing more, and a partial
\* pipeline never becomes the ActivePipeline.
C12_SpawnFailureFatal ==
    /\ [][SpawnFails => pc' = "aborted" /\ recorders' = recorders]_vars
    /\ [][pc = "aborted" =>
            /\ pc' = "aborted"
            /\ pending' >= pending
            /\ Spawned = {}
            /\ UNCHANGED << config, recorders, valid_screens >>]_vars
    /\ [](pc \in {"subscribe", "wait"} => WholePipeline)

\* the upscaler's spawn has failed in the handler: the capture runs alone, a
\* notification is left unread and the controller is gone
C12_Witness ==
    /\ pc = "aborted"
    /\ pending > 0
    /\ \E p \in DOMAIN children :
         /\ ~children[p].signalled
         /\ children[p].kind = "capture"
         /\ children[p].out_dev # config.devices_from
         /\ p \notin Range(recorders)
    /\ \A p \in DOMAIN children : children[p].kind = "scaler" => children[p].signalled

(***************************************************************************)
(* The table at the end of startup.                                        *)
(***************************************************************************)
\* C13 as stated: when startup completes the table binds the canonical
\* resolution and every resolution of the startup snapshot of the outputs.
C13_AllInitialResolutionsBound ==
    pc = "subscribe" => \A r \in Range(config.resolutions) : r \in DOMAIN config.outputs

\* C13 as amended: when startup completes the table binds the canonical
\* resolution and, if an output is recorded at startup, the resolution of that
\* output, and nothing else; before the startup pipeline is built it binds the
\* canonical resolution alone.
C13_StartupBindsOnlyWhatItRecords ==
    /\ [](pc \in {"select", "build"} =>
            DOMAIN config.outputs = {config.resolutions[1]})
    /\ [][(pc = "build" /\ pc' = "subscribe") =>
            DOMAIN config'.outputs =
               {config.resolutions[1]}
                 \cup (IF Len(valid_screens) = 0 THEN {} ELSE {BuiltResolution})]_vars

\* outputs of 1600x1200 and 1920x1080 with -d 3: startup ends with devices 3 and
\* 4 bound and the resolution of the other output unbound
C13_Witness ==
    /\ pc = "subscribe"
    /\ config.devices_from = 3
    /\ Len(config.resolutions) = 3
    /\ Devices = {3, 4}
    /\ \E r \in Range(config.resolutions) : r \notin DOMAIN config.outputs

\* the first candidate's output is not in the present get_outputs answer
TargetAbsent ==
    /\ Len(valid_screens) > 0
    /\ \A i \in DOMAIN sway_outputs : sway_outputs[i].name # valid_screens[1].output

\* C14: when the selected output is absent from the listing taken while its
\* pipeline is built, the controller aborts: nothing is spawned, the target is
\* not skipped, there is no fall back to Black or to the previous pipeline, whose
\* processes the handler has signalled by then.
C14_MissingOutputAborts ==
    /\ [][(Builds /\ TargetAbsent) =>
            /\ pc' = "aborted"
            /\ Spawned = {}
            /\ UNCHANGED << config, recorders, children >>
            /\ pc = "rebuild" => \A i \in DOMAIN recorders : Signalled(recorders[i])]_vars
    /\ [][pc = "aborted" => pc' = "aborted" /\ recorders' = recorders]_vars

\* the handler has aborted on a missing output: every child alive is one it has
\* signalled, and none has been spawned
C14_Witness ==
    /\ pc = "aborted"
    /\ TargetAbsent
    /\ Len(recorders) = 2
    /\ \A i \in DOMAIN recorders :
         recorders[i] \in DOMAIN children /\ children[recorders[i]].signalled
    /\ DOMAIN children = Range(recorders)

(***************************************************************************)
(* The canonical resolution after startup.                                 *)
(***************************************************************************)
\* C15: the canonical resolution is fixed at startup: nothing changes it
\* afterwards, whatever happens to the outputs, and every black generator and
\* every scaler has it as its size.
C15_CanonicalFixed ==
    /\ [][pc # "init" => config'.resolutions = config.resolutions]_vars
    /\ [](\A p \in DOMAIN children :
            children[p].kind \in {"black", "scaler"} =>
               children[p].size = config.resolutions[1])

\* an output is recorded in a mode that no output had at startup, and the scaler
\* of its pipeline has the startup size
C15_Witness ==
    /\ pc = "wait"
    /\ Len(recorders) = 2
    /\ recorders[1] \in DOMAIN children
    /\ recorders[2] \in DOMAIN children
    /\ children[recorders[2]].kind = "scaler"
    /\ children[recorders[2]].size = config.resolutions[1]
    /\ \E r \in DOMAIN config.outputs :
         /\ r \notin Range(config.resolutions)
         /\ config.outputs[r] = children[recorders[1]].out_dev

(***************************************************************************)
(* A mode change of the recorded output.                                   *)
(***************************************************************************)
\* the resolution the output named o has in the present get_outputs answer
PresentResolution(o) ==
    LET out == sway_outputs[FindOutput(sway_outputs, o)]
    IN Res(out.current_mode.width, out.current_mode.height)

\* C16: once a notification has been handled with the recorded output still the
\* selected target, the output is captured through the device bound to the
\* resolution it has now, also when that is not the resolution it had when its
\* pipeline was built.
C16_CaptureFollowsModeChange ==
    [][(/\ ReadsNotification
        /\ SelectedTarget # ""
        /\ SelectedTarget = config.current_output
        /\ \E i \in DOMAIN sway_outputs : sway_outputs[i].name = SelectedTarget
        /\ pc' = "wait")
          => /\ PresentResolution(SelectedTarget) \in DOMAIN config'.outputs
             /\ recorders'[1] \in DOMAIN children'
             /\ children'[recorders'[1]].out_dev =
                  config'.outputs[PresentResolution(SelectedTarget)]]_vars

(***************************************************************************)
(* The children across a swap.                                             *)
(***************************************************************************)
\* C17: termination is fire-and-forget: the kill loop leaves every owned child
\* signalled and alive, and the replacement is spawned, with a process writing to
\* /dev/video<devices_from>, while the children alive before it stay alive; so a
\* signalled child and a new one can have the same device open.
C17_FireAndForget ==
    /\ [][(pc = "wait" /\ pc' = "rebuild") =>
            \A i \in DOMAIN recorders :
               /\ recorders[i] \in DOMAIN children'
               /\ children'[recorders[i]].signalled]_vars
    /\ [][(pc = "rebuild" /\ pc' = "wait") =>
            /\ \A p \in DOMAIN children : p \in DOMAIN children'
            /\ \E q \in Spawned : children'[q].out_dev = config.devices_from]_vars

\* a signalled child of the previous pipeline and a process of the new pipeline
\* both write to /dev/video<devices_from>
C17_Witness ==
    /\ pc = "wait"
    /\ \E p \in DOMAIN children :
         /\ children[p].signalled
         /\ children[p].out_dev = config.devices_from
    /\ \E i \in DOMAIN recorders :
         /\ recorders[i] \in DOMAIN children
         /\ ~children[recorders[i]].signalled
         /\ children[recorders[i]].out_dev = config.devices_from

\* the children that have not been sent a termination signal
Unsignalled == {p \in DOMAIN children : ~children[p].signalled}

\* C19: while the controller runs, between two notification handlings, every
\* child that has been spawned and not signalled is owned by the current
\* pipeline: there are at most two, and no process of an earlier pipeline runs
\* on unsignalled after a swap.
C19_UnsignalledAreOwned ==
    pc \in {"subscribe", "wait"} =>
       /\ Unsignalled \subseteq Range(recorders)
       /\ Cardinality(Unsignalled) <= 2

\* a two-process pipeline has replaced a two-process pipeline whose processes
\* are signalled and still alive
C19_Witness ==
    /\ pc = "wait"
    /\ Len(recorders) = 2
    /\ Unsignalled = Range(recorders)
    /\ Cardinality(DOMAIN children \ Unsignalled) = 2

(***************************************************************************)
(* The end of the event loop.                                              *)
(***************************************************************************)
\* C18: the event loop ends, and the controller with it, exactly when the stream
\* closes or a read from it fails: the controller does not go on reading a
\* stream that has returned an error, and it ends only on one of the two, with
\* every line that arrived handled.
C18_LoopEndsOnCloseOrError ==
    /\ read_failed => pc = "done"
    /\ pc = "done" => (stream = "closed" \/ read_failed) /\ pending = 0

====
